---- MODULE Spec2Model ----
(***************************************************************************)
(* Model of backend/main.py: the heartbeat store USER_HEARTBEATS, the      *)
(* classification of get_real_friends_list and the HTTP handlers around    *)
(* them.  One action per endpoint; the clock (datetime.utcnow) is a        *)
(* variable advanced by Tick.  Time is counted in whole seconds.           *)
(***************************************************************************)
EXTENDS Integers, Sequences, FiniteSets, TLC

VARIABLES
    USER_HEARTBEATS,  \* the dict, as its items in insertion order
    now,              \* what datetime.utcnow() returns
    response,         \* the response the last step returned; NoResponse when
                      \* that step was no request
    lastWrite,        \* history: per identity, the last successful write
    heartbeated,      \* history: identities heartbeated since the last clear
    tasks,            \* the handler coroutines of the event loop, each with
                      \* its position and locals (statement-level
                      \* specification only)
    committed         \* history: per identity, the record the last completed
                      \* write operation meant to leave (statement-level
                      \* specification only)

vars == <<USER_HEARTBEATS, now, response, lastWrite, heartbeated, tasks,
          committed>>

\* What a handler taken as one step leaves alone.
stepVars == <<tasks, committed>>

-----------------------------------------------------------------------------
(* Bounds and inputs *)

\* The clock is read at these instants (seconds since the start): the start,
\* the second before the first timeout period ends, and the ends of
\* MaxPeriods periods.
MaxPeriods == 1

Instants == {0, 299} \cup {300 * k : k \in 1..MaxPeriods}

\* str values are sequences of character codes where their order or case
\* matters (names), and TLA+ strings where only equality does.
NameB == <<66>>         \* "B"
NameLowerA == <<97>>    \* "a"
Names == {NameB, NameLowerA}

\* Request uuids.
Uuids == {"u1", "u2"}

\* The empty string is a str like any other; SpecEmptyUuid posts it.
EmptyUuids == {"", "u1"}
AllUuids == Uuids \cup EmptyUuids

\* A path parameter {uuid} matches one or more characters.
PathUuids == Uuids

\* activity_state values a client may send.
ActivityInputs == {"online", "idle", "unknown", "active"}

API_TOKEN == "dev-token-change-me"

\* An Authorization header is absent, or carries a Bearer token.
NoCredentials == "(no Authorization header)"
Credentials == {API_TOKEN, "wrong-token", NoCredentials}

-----------------------------------------------------------------------------
(* Configuration *)

ONLINE_TIMEOUT_SECONDS == 300

USE_MOCK_DATA == FALSE

\* timedelta(minutes=10), in seconds
SimulateOfflineAge == 10 * 60

-----------------------------------------------------------------------------
(* The dict USER_HEARTBEATS: items <<key, value>> in insertion order *)

Keys(d) == {d[i][1] : i \in 1..Len(d)}

\* `key in d`
Contains(d, key) == \E i \in 1..Len(d) : d[i][1] = key

IndexOf(d, key) == CHOOSE i \in 1..Len(d) : d[i][1] = key

\* d[key]
GetItem(d, key) == d[IndexOf(d, key)][2]

\* A mutant of SetItem: a store that appends instead of replacing.
SetItemAppend(d, key, value) == Append(d, <<key, value>>)

\* A mutant of SetItem: an existing record keeps the time it was last seen.
SetItemKeepsLastSeen(d, key, value) ==
    IF Contains(d, key)
    THEN [d EXCEPT ![IndexOf(d, key)] =
             <<key, [value EXCEPT !.last_seen = GetItem(d, key).last_seen]>>]
    ELSE Append(d, <<key, value>>)

\* d[key] = value : replaces the value of an existing key in place, appends a
\* new key.
SetItem(d, key, value) ==
    IF Contains(d, key)
    THEN [d EXCEPT ![IndexOf(d, key)] = <<key, value>>]
    ELSE Append(d, <<key, value>>)

-----------------------------------------------------------------------------
(* Helpers *)

\* datetime.isoformat() + "Z"
IsoZ(t) == <<"iso", t, "Z">>

\* str.lower() on character codes
Lower(s) == [i \in 1..Len(s) |-> IF s[i] \in 65..90 THEN s[i] + 32 ELSE s[i]]

\* Python's < on str
RECURSIVE StrLess(_, _)
StrLess(a, b) ==
    IF b = <<>> THEN FALSE
    ELSE IF a = <<>> THEN TRUE
    ELSE IF a[1] # b[1] THEN a[1] < b[1]
    ELSE StrLess(Tail(a), Tail(b))

\* list.sort(key=lambda f: f["name"].lower()) is stable: an element goes
\* behind every element whose key is not greater than its own.
RECURSIVE InsertByName(_, _)
InsertByName(sorted, f) ==
    IF sorted = <<>> THEN <<f>>
    ELSE IF StrLess(Lower(f.name), Lower(sorted[1].name))
         THEN <<f>> \o sorted
         ELSE <<sorted[1]>> \o InsertByName(Tail(sorted), f)

RECURSIVE SortByName(_)
SortByName(friends) ==
    IF friends = <<>> THEN <<>>
    ELSE InsertByName(SortByName(SubSeq(friends, 1, Len(friends) - 1)),
                      friends[Len(friends)])

\* A mutant of Classify: the timeout compared with > instead of >=.
ClassifyStrict(elapsed, activity_state) ==
    IF elapsed > ONLINE_TIMEOUT_SECONDS THEN "offline"
    ELSE IF activity_state = "idle" THEN "idle"
    ELSE "online"

\* A mutant of Classify: only "online" counts as online within the window.
ClassifyUnknownIdle(elapsed, activity_state) ==
    IF elapsed >= ONLINE_TIMEOUT_SECONDS THEN "offline"
    ELSE IF activity_state # "online" THEN "idle"
    ELSE "online"

\* A mutant of Classify: a record that reports "online" never goes offline.
ClassifyTrusting(elapsed, activity_state) ==
    IF activity_state = "online" THEN "online"
    ELSE IF elapsed >= ONLINE_TIMEOUT_SECONDS THEN "offline"
    ELSE IF activity_state = "idle" THEN "idle"
    ELSE "online"

\* "Determine final state"
Classify(elapsed, activity_state) ==
    IF elapsed >= ONLINE_TIMEOUT_SECONDS THEN "offline"
    ELSE IF activity_state = "idle" THEN "idle"
    ELSE "online"

\* One entry of the friends list, for the item <<uuid, data>> of the dict.
FriendEntry(item, t) ==
    [uuid |-> item[1],
     name |-> item[2].name,
     state |-> Classify(t - item[2].last_seen, item[2].activity_state),
     activity_state |-> item[2].activity_state,
     last_seen |-> IsoZ(item[2].last_seen)]

\* A mutant of get_real_friends_list: records past the timeout are dropped
\* instead of being listed offline.
get_real_friends_list_fresh(d, t) ==
    LET fresh == SelectSeq(d, LAMBDA item :
                                 t - item[2].last_seen < ONLINE_TIMEOUT_SECONDS)
    IN  SortByName([i \in 1..Len(fresh) |-> FriendEntry(fresh[i], t)])

get_real_friends_list(d, t) ==
    SortByName([i \in 1..Len(d) |-> FriendEntry(d[i], t)])

\* A mutant of DebugEntry: the timeout is compared with > instead of >=.
DebugEntryStrict(item, t) ==
    [uuid |-> item[1],
     name |-> item[2].name,
     activity_state |-> item[2].activity_state,
     effective_state |->
         IF t - item[2].last_seen > ONLINE_TIMEOUT_SECONDS THEN "offline"
         ELSE IF item[2].activity_state = "idle" THEN "idle"
         ELSE "online",
     last_seen |-> IsoZ(item[2].last_seen),
     elapsed_seconds |-> t - item[2].last_seen]

\* One entry of the debug listing.
DebugEntry(item, t) ==
    [uuid |-> item[1],
     name |-> item[2].name,
     activity_state |-> item[2].activity_state,
     effective_state |->
         IF t - item[2].last_seen >= ONLINE_TIMEOUT_SECONDS THEN "offline"
         ELSE IF item[2].activity_state = "idle" THEN "idle"
         ELSE "online",
     last_seen |-> IsoZ(item[2].last_seen),
     elapsed_seconds |-> t - item[2].last_seen]

\* HTTPBearer refuses a request without credentials; which of the two codes
\* it answers depends on the FastAPI release.
NoCredentialsStatus == {401, 403}

\* A mutant of verify_token: any token that is presented passes.
verify_token_any(credentials) ==
    IF credentials = NoCredentials
    THEN {[status |-> s, body |-> [detail |-> "Not authenticated"]] :
              s \in NoCredentialsStatus}
    ELSE {}

\* verify_token: the responses the dependency may end the request with; none
\* when the token is the configured one.
verify_token(credentials) ==
    IF credentials = NoCredentials
    THEN {[status |-> s, body |-> [detail |-> "Not authenticated"]] :
              s \in NoCredentialsStatus}
    ELSE IF credentials # API_TOKEN
    THEN {[status |-> 401, body |-> [detail |-> "Invalid or missing token"]]}
    ELSE {}

\* A mutant of ActivityPattern that takes the spec's spelling of the enum.
ActivityPatternActive == {"active", "idle", "unknown"}

\* pattern="^(online|idle|unknown)$"
ActivityPattern == {"online", "idle", "unknown"}

\* HeartbeatRequest: a body is a JSON object, here a record of the fields
\* present.  uuid and name are required (Field(...)); activity_state, when
\* present, matches the pattern.
ValidHeartbeat(body) ==
    /\ "uuid" \in DOMAIN body
    /\ "name" \in DOMAIN body
    /\ "activity_state" \in DOMAIN body => body.activity_state \in ActivityPattern

\* The activity_state of the parsed HeartbeatRequest (default="online").
ActivityOf(body) ==
    IF "activity_state" \in DOMAIN body THEN body.activity_state ELSE "online"

\* No successful write: the value of lastWrite for an identity without one.
NoWrite == [op |-> "none", at |-> 0, activity_state |-> "none"]

\* The value of lastWrite for an identity whose record a clear has removed.
Cleared == [op |-> "cleared", at |-> 0, activity_state |-> "none"]

\* How identity uuid is classified at time t: "absent" without a record.
StateAt(d, uuid, t) ==
    IF Contains(d, uuid)
    THEN Classify(t - GetItem(d, uuid).last_seen, GetItem(d, uuid).activity_state)
    ELSE "absent"

NoResponse == [status |-> 0, body |-> <<>>]

\* The value of committed for an identity without a record.
NoRecord == [name |-> <<>>, last_seen |-> 0, activity_state |-> "none"]

-----------------------------------------------------------------------------
(* Initial state: the module has just been imported *)

Init ==
    /\ USER_HEARTBEATS = <<>>
    /\ now = 0
    /\ response = NoResponse
    /\ lastWrite = [u \in AllUuids |-> NoWrite]
    /\ heartbeated = {}
    /\ tasks = {}
    /\ committed = [u \in AllUuids |-> NoRecord]

\* The clock advances; no request is handled.
Tick ==
    /\ \E t \in Instants : t > now /\ now' = t
    /\ response' = NoResponse
    /\ UNCHANGED <<USER_HEARTBEATS, lastWrite, heartbeated, stepVars>>

\* A request ended by the verify_token dependency, before the handler runs.
Refused(credentials) ==
    /\ response' \in verify_token(credentials)
    /\ UNCHANGED <<USER_HEARTBEATS, now, lastWrite, heartbeated, stepVars>>

\* A request that ends with response r and changes nothing.
Fails(r) ==
    /\ response' = r
    /\ UNCHANGED <<USER_HEARTBEATS, now, lastWrite, heartbeated, stepVars>>

\* POST /heartbeat/
post_heartbeat(credentials, body) ==
    IF verify_token(credentials) # {} THEN Refused(credentials)
    ELSE IF ~ValidHeartbeat(body)
    THEN Fails([status |-> 422, body |-> [detail |-> "validation error"]])
    ELSE /\ response' =
                [status |-> 200,
                 body |-> [success |-> TRUE,
                           message |-> <<"Heartbeat received for", body.name,
                                         ActivityOf(body)>>,
                           timestamp |-> IsoZ(now)]]
         /\ USER_HEARTBEATS' =
                SetItem(USER_HEARTBEATS, body.uuid,
                        [name |-> body.name,
                         last_seen |-> now,
                         activity_state |-> ActivityOf(body)])
         /\ lastWrite' =
                [lastWrite EXCEPT ![body.uuid] =
                    [op |-> "heartbeat", at |-> now,
                     activity_state |-> ActivityOf(body)]]
         /\ heartbeated' = heartbeated \cup {body.uuid}
         /\ UNCHANGED <<now, stepVars>>

\* A mutant of get_online_status: asking for the list counts as a sign of
\* life of every record.
get_online_status_refreshing(credentials) ==
    IF verify_token(credentials) # {} THEN Refused(credentials)
    ELSE /\ response' =
                [status |-> 200,
                 body |-> [friends |->
                              get_real_friends_list(USER_HEARTBEATS, now)]]
         /\ USER_HEARTBEATS' =
                [i \in 1..Len(USER_HEARTBEATS) |->
                    <<USER_HEARTBEATS[i][1],
                      [USER_HEARTBEATS[i][2] EXCEPT !.last_seen = now]>>]
         /\ UNCHANGED <<now, lastWrite, heartbeated, stepVars>>

\* GET /online_status/ (USE_MOCK_DATA is False: the list is built from the
\* heartbeats)
get_online_status(credentials) ==
    IF verify_token(credentials) # {} THEN Refused(credentials)
    ELSE /\ ~USE_MOCK_DATA
         /\ response' =
                [status |-> 200,
                 body |-> [friends |->
                              get_real_friends_list(USER_HEARTBEATS, now)]]
         /\ UNCHANGED <<USER_HEARTBEATS, now, lastWrite, heartbeated, stepVars>>

\* GET /healthz : no dependency on verify_token
healthz ==
    /\ response' = [status |-> 200, body |-> [ok |-> TRUE]]
    /\ UNCHANGED <<USER_HEARTBEATS, now, lastWrite, heartbeated, stepVars>>

\* GET /debug/users
debug_get_users(credentials) ==
    LET users == [i \in 1..Len(USER_HEARTBEATS) |->
                      DebugEntry(USER_HEARTBEATS[i], now)]
    IN  IF verify_token(credentials) # {} THEN Refused(credentials)
        ELSE /\ response' =
                    [status |-> 200,
                     body |-> [total_users |-> Len(users),
                               online_timeout_seconds |-> ONLINE_TIMEOUT_SECONDS,
                               use_mock_data |-> USE_MOCK_DATA,
                               users |-> users]]
             /\ UNCHANGED <<USER_HEARTBEATS, now, lastWrite, heartbeated, stepVars>>

\* What a clear makes of the history: every identity with a record has now
\* lost it.
ClearedWrites ==
    [u \in AllUuids |-> IF lastWrite[u] = NoWrite THEN NoWrite ELSE Cleared]

\* A mutant of debug_clear_users: only the oldest record is removed.
debug_clear_users_oldest(credentials) ==
    IF verify_token(credentials) # {} THEN Refused(credentials)
    ELSE /\ USER_HEARTBEATS' =
                IF USER_HEARTBEATS = <<>> THEN <<>> ELSE Tail(USER_HEARTBEATS)
         /\ response' =
                [status |-> 200,
                 body |-> [success |-> TRUE,
                           message |-> <<"All user data cleared">>]]
         /\ lastWrite' = ClearedWrites
         /\ heartbeated' = {}
         /\ UNCHANGED <<now, stepVars>>

\* POST /debug/clear_users
debug_clear_users(credentials) ==
    IF verify_token(credentials) # {} THEN Refused(credentials)
    ELSE /\ USER_HEARTBEATS' = <<>>
         /\ response' =
                [status |-> 200,
                 body |-> [success |-> TRUE,
                           message |-> <<"All user data cleared">>]]
         /\ lastWrite' = ClearedWrites
         /\ heartbeated' = {}
         /\ UNCHANGED <<now, stepVars>>

\* A mutant of NotFound: the handler creates the record it does not find.
NotFoundCreates(uuid) ==
    /\ USER_HEARTBEATS' =
           Append(USER_HEARTBEATS,
                  <<uuid, [name |-> NameB, last_seen |-> now,
                           activity_state |-> "online"]>>)
    /\ response' = [status |-> 404,
                    body |-> [error |-> <<"User", uuid, "not found">>]]
    /\ UNCHANGED <<now, lastWrite, heartbeated, stepVars>>

\* return JSONResponse(status_code=404, ...)
NotFound(uuid) ==
    Fails([status |-> 404, body |-> [error |-> <<"User", uuid, "not found">>]])

\* A mutant of Simulated: the update is made to every record of the store.
SimulatedAll(op, uuid, data) ==
    /\ USER_HEARTBEATS' =
           [i \in 1..Len(USER_HEARTBEATS) |-> <<USER_HEARTBEATS[i][1], data>>]
    /\ response' =
           [status |-> 200,
            body |-> [success |-> TRUE, message |-> <<"User", uuid, op>>]]
    /\ lastWrite' =
           [lastWrite EXCEPT ![uuid] =
               [op |-> op, at |-> now, activity_state |-> data.activity_state]]
    /\ UNCHANGED <<now, heartbeated, stepVars>>

\* The success path the three simulate handlers share: the record of uuid,
\* which exists, becomes `data`.
Simulated(op, uuid, data) ==
    /\ USER_HEARTBEATS' =
           [USER_HEARTBEATS EXCEPT ![IndexOf(USER_HEARTBEATS, uuid)][2] = data]
    /\ response' =
           [status |-> 200,
            body |-> [success |-> TRUE, message |-> <<"User", uuid, op>>]]
    /\ lastWrite' =
           [lastWrite EXCEPT ![uuid] =
               [op |-> op, at |-> now, activity_state |-> data.activity_state]]
    /\ UNCHANGED <<now, heartbeated, stepVars>>

\* A mutant of OfflineData: the record is aged by less than the timeout.
OfflineDataShort(data, t) == [data EXCEPT !.last_seen = t - 60]

\* A mutant of OfflineData: forcing a record offline also forgets what the
\* client reported.
OfflineDataForgets(data, t) ==
    [data EXCEPT !.last_seen = t - SimulateOfflineAge,
                 !.activity_state = "unknown"]

\* USER_HEARTBEATS[uuid]["last_seen"] = datetime.utcnow() - timedelta(minutes=10)
OfflineData(data, t) == [data EXCEPT !.last_seen = t - SimulateOfflineAge]

\* A mutant of IdleData: the state is set, the record is not refreshed.
IdleDataStale(data, t) == [data EXCEPT !.activity_state = "idle"]

\* activity_state = "idle"; last_seen = datetime.utcnow()
IdleData(data, t) ==
    [data EXCEPT !.activity_state = "idle", !.last_seen = t]

\* A mutant of ActiveData: the record is dated a minute back.
ActiveDataBack(data, t) ==
    [data EXCEPT !.activity_state = "online", !.last_seen = t - 60]

\* activity_state = "online"; last_seen = datetime.utcnow()
ActiveData(data, t) ==
    [data EXCEPT !.activity_state = "online", !.last_seen = t]

\* POST /debug/simulate_offline/{uuid}
debug_simulate_offline(credentials, uuid) ==
    IF verify_token(credentials) # {} THEN Refused(credentials)
    ELSE IF ~Contains(USER_HEARTBEATS, uuid) THEN NotFound(uuid)
    ELSE Simulated("simulated as offline", uuid,
                   OfflineData(GetItem(USER_HEARTBEATS, uuid), now))

\* POST /debug/simulate_idle/{uuid}
debug_simulate_idle(credentials, uuid) ==
    IF verify_token(credentials) # {} THEN Refused(credentials)
    ELSE IF ~Contains(USER_HEARTBEATS, uuid) THEN NotFound(uuid)
    ELSE Simulated("simulated as idle", uuid,
                   IdleData(GetItem(USER_HEARTBEATS, uuid), now))

\* POST /debug/simulate_active/{uuid}
debug_simulate_active(credentials, uuid) ==
    IF verify_token(credentials) # {} THEN Refused(credentials)
    ELSE IF ~Contains(USER_HEARTBEATS, uuid) THEN NotFound(uuid)
    ELSE Simulated("simulated as active", uuid,
                   ActiveData(GetItem(USER_HEARTBEATS, uuid), now))

-----------------------------------------------------------------------------
(* The requests clients make *)

\* The bodies a client may post with the uuids U: all fields; activity_state
\* left out; uuid left out; name left out.
FullBodies(U) == [uuid : U, name : Names, activity_state : ActivityInputs]
BodiesNoActivity(U) == [uuid : U, name : Names]
BodiesNoUuid == [name : Names, activity_state : {"online"}]
BodiesNoName(U) == [uuid : U, activity_state : {"online"}]

\* A heartbeat with credentials c and any of these bodies.
HeartbeatOf(c, U) ==
    \/ \E b \in FullBodies(U) : post_heartbeat(c, b)
    \/ \E b \in BodiesNoActivity(U) : post_heartbeat(c, b)
    \/ \E b \in BodiesNoUuid : post_heartbeat(c, b)
    \/ \E b \in BodiesNoName(U) : post_heartbeat(c, b)

\* The dependency runs before the body is looked at: a refused request is the
\* same step whatever its body, so the body is drawn once the credentials
\* pass.  This is HeartbeatOf(c, U).
HeartbeatWith(c, U) ==
    IF verify_token(c) # {} THEN Refused(c) ELSE HeartbeatOf(c, U)

HeartbeatFrom(U) == \E c \in Credentials : HeartbeatWith(c, U)

Heartbeat == HeartbeatFrom(Uuids)

GetStatus == \E c \in Credentials : get_online_status(c)

Healthz == healthz

DebugList == \E c \in Credentials : debug_get_users(c)

DebugClear == \E c \in Credentials : debug_clear_users(c)

ForceOffline == \E c \in Credentials, u \in PathUuids : debug_simulate_offline(c, u)

ForceIdle == \E c \in Credentials, u \in PathUuids : debug_simulate_idle(c, u)

ForceActive == \E c \in Credentials, u \in PathUuids : debug_simulate_active(c, u)

Next ==
    \/ Tick
    \/ Heartbeat
    \/ GetStatus
    \/ Healthz
    \/ DebugList
    \/ DebugClear
    \/ ForceOffline
    \/ ForceIdle
    \/ ForceActive

Spec == Init /\ [][Next]_vars

\* The same service, with clients that also post the empty string as uuid.
NextEmptyUuid ==
    \/ Tick
    \/ HeartbeatFrom(EmptyUuids)
    \/ GetStatus
    \/ Healthz
    \/ DebugList
    \/ DebugClear
    \/ ForceOffline
    \/ ForceIdle
    \/ ForceActive

SpecEmptyUuid == Init /\ [][NextEmptyUuid]_vars

\* The requests that reach the store: authenticated, with valid bodies.
LiveBodies == [uuid : Uuids, name : {NameB}, activity_state : {"online", "idle"}]

LiveHeartbeat == \E b \in LiveBodies : post_heartbeat(API_TOKEN, b)

LiveGetStatus == get_online_status(API_TOKEN)

LiveClear == debug_clear_users(API_TOKEN)

LiveForceOffline == \E u \in PathUuids : debug_simulate_offline(API_TOKEN, u)

LiveForceIdle == \E u \in PathUuids : debug_simulate_idle(API_TOKEN, u)

LiveForceActive == \E u \in PathUuids : debug_simulate_active(API_TOKEN, u)

NextLive ==
    \/ Tick
    \/ LiveHeartbeat
    \/ LiveGetStatus
    \/ LiveClear
    \/ LiveForceOffline
    \/ LiveForceIdle
    \/ LiveForceActive

\* The service while time keeps advancing and clients keep asking for the
\* list: the clock goes on to the last instant, and get_status is made again
\* and again.
SpecLive ==
    /\ Init
    /\ [][NextLive]_vars
    /\ WF_vars(Tick)
    /\ WF_vars(LiveGetStatus)

\* The system clock is set back: datetime.utcnow() is the wall clock, which an
\* administrator or a time synchronisation may move to an earlier time.
ClockBack ==
    /\ \E t \in Instants : t < now /\ now' = t
    /\ response' = NoResponse
    /\ UNCHANGED <<USER_HEARTBEATS, lastWrite, heartbeated, stepVars>>

LiveDebugList == debug_get_users(API_TOKEN)

NextClockBack ==
    \/ Tick
    \/ ClockBack
    \/ LiveHeartbeat
    \/ LiveGetStatus
    \/ LiveDebugList

\* The service on a host whose clock may be set back.
SpecClockBack == Init /\ [][NextClockBack]_vars

-----------------------------------------------------------------------------
(* The handlers statement by statement, as coroutines of one event loop.     *)
(* Every handler is an `async def` without an await: once the loop has       *)
(* started it, it runs to its return before any other handler starts.        *)
(* Requests received and not yet answered are concurrent.                    *)

\* Requests in flight at once.
MaxTasks == 2

StepUuids == {"u1"}

\* The requests followed here have passed verify_token and validation.
HeartbeatRequest ==
    [op : {"post_heartbeat"}, uuid : StepUuids, name : Names,
     activity_state : {"online", "idle"}]

SimulateOps ==
    {"debug_simulate_offline", "debug_simulate_idle", "debug_simulate_active"}

SimulateRequests ==
    [op : SimulateOps, uuid : StepUuids, name : {<<>>}, activity_state : {"none"}]

ReadOps == {"get_online_status", "debug_get_users"}

StoreRequests ==
    [op : ReadOps \cup {"debug_clear_users"}, uuid : {"-"}, name : {<<>>},
     activity_state : {"none"}]

StepRequests == HeartbeatRequest \cup SimulateRequests \cup StoreRequests

\* A coroutine that has not started: its request, its position, and its
\* locals (t: the clock it read; n: the size of the dict when its iteration
\* began; out: the list it is building; seen: the record its check found).
NewTask(req) ==
    [req |-> req, pc |-> "start", t |-> 0, n |-> 0, out |-> <<>>,
     seen |-> NoRecord]

\* A request arrives while others are in flight.
Receive ==
    /\ Cardinality(tasks) < MaxTasks
    /\ \E req \in StepRequests :
           /\ \A T \in tasks : T.req # req
           /\ tasks' = tasks \cup {NewTask(req)}
    /\ UNCHANGED <<USER_HEARTBEATS, now, response, lastWrite, heartbeated,
                   committed>>

\* A mutant of CanRun: the loop switches between handlers at any statement.
CanRunAny(T) == T \in tasks

\* The loop switches coroutines only at an await, and the handlers have none:
\* T takes a step only while no other handler is between its first statement
\* and its return.
CanRun(T) == \A other \in tasks \ {T} : other.pc = "start"

\* T goes on as T2; T returns response r.
Advance(T, T2) == tasks' = (tasks \ {T}) \cup {T2}

Return(T, r) == tasks' = tasks \ {T} /\ response' = r

\* An exception that leaves the handler: the server answers 500.
InternalError == [status |-> 500, body |-> <<"Internal Server Error">>]

\* USER_HEARTBEATS[uuid][field] = value, for a uuid that is a key
WriteField(uuid, field, value) ==
    USER_HEARTBEATS' =
        [USER_HEARTBEATS EXCEPT ![IndexOf(USER_HEARTBEATS, uuid)][2][field] = value]

\* post_heartbeat: now = utcnow(); then the one assignment and the return.
step_post_heartbeat(T) ==
    /\ T.req.op = "post_heartbeat"
    /\ CanRun(T)
    /\ \/ /\ T.pc = "start"
          /\ Advance(T, [T EXCEPT !.pc = "209", !.t = now])
          /\ UNCHANGED <<USER_HEARTBEATS, response, committed>>
       \/ /\ T.pc = "209"
          /\ LET data == [name |-> T.req.name, last_seen |-> T.t,
                          activity_state |-> T.req.activity_state]
             IN  /\ USER_HEARTBEATS' = SetItem(USER_HEARTBEATS, T.req.uuid, data)
                 /\ committed' = [committed EXCEPT ![T.req.uuid] = data]
          /\ Return(T, [status |-> 200,
                        body |-> [success |-> TRUE,
                                  message |-> <<"Heartbeat received for",
                                                T.req.name, T.req.activity_state>>,
                                  timestamp |-> IsoZ(T.t)]])
    /\ UNCHANGED <<now, lastWrite, heartbeated>>

\* debug_clear_users
step_debug_clear_users(T) ==
    /\ T.req.op = "debug_clear_users"
    /\ CanRun(T)
    /\ T.pc = "start"
    /\ USER_HEARTBEATS' = <<>>
    /\ committed' = [u \in AllUuids |-> NoRecord]
    /\ Return(T, [status |-> 200,
                  body |-> [success |-> TRUE,
                            message |-> <<"All user data cleared">>]])
    /\ UNCHANGED <<now, lastWrite, heartbeated>>

\* The response of a simulate handler that has done its writes.
SimulateDone(T) ==
    [status |-> 200,
     body |-> [success |-> TRUE,
               message |-> <<"User", T.req.uuid,
                             CASE T.req.op = "debug_simulate_offline" -> "simulated as offline"
                               [] T.req.op = "debug_simulate_idle" -> "simulated as idle"
                               [] OTHER -> "simulated as active">>]]

\* The simulate handlers: the check `uuid not in USER_HEARTBEATS`, then one
\* subscript assignment per statement.  USER_HEARTBEATS[uuid] raises KeyError
\* when the key is gone.
step_debug_simulate(T) ==
    LET uuid == T.req.uuid
        exists == Contains(USER_HEARTBEATS, uuid)
        KeyError == /\ Return(T, InternalError)
                    /\ UNCHANGED <<USER_HEARTBEATS, committed>>
    IN  /\ T.req.op \in SimulateOps
        /\ CanRun(T)
        /\ \/ /\ T.pc = "start"
              /\ IF ~exists
                 THEN Return(T, [status |-> 404,
                                 body |-> [error |-> <<"User", uuid, "not found">>]])
                 ELSE /\ Advance(T, [T EXCEPT !.pc = "write",
                                              !.seen = GetItem(USER_HEARTBEATS, uuid)])
                      /\ UNCHANGED response
              /\ UNCHANGED <<USER_HEARTBEATS, committed>>
           \/ /\ T.pc = "write"
              /\ T.req.op = "debug_simulate_offline"
              /\ IF ~exists THEN KeyError
                 ELSE /\ WriteField(uuid, "last_seen", now - SimulateOfflineAge)
                      /\ committed' = [committed EXCEPT ![uuid] = OfflineData(T.seen, now)]
                      /\ Return(T, SimulateDone(T))
           \/ /\ T.pc = "write"
              /\ T.req.op # "debug_simulate_offline"
              /\ IF ~exists THEN KeyError
                 ELSE /\ WriteField(uuid, "activity_state",
                                    IF T.req.op = "debug_simulate_idle"
                                    THEN "idle" ELSE "online")
                      /\ Advance(T, [T EXCEPT !.pc = "refresh"])
                      /\ UNCHANGED <<response, committed>>
           \/ /\ T.pc = "refresh"
              /\ IF ~exists THEN KeyError
                 ELSE /\ WriteField(uuid, "last_seen", now)
                      /\ committed' =
                             [committed EXCEPT ![uuid] =
                                 IF T.req.op = "debug_simulate_idle"
                                 THEN IdleData(T.seen, now)
                                 ELSE ActiveData(T.seen, now)]
                      /\ Return(T, SimulateDone(T))
        /\ UNCHANGED <<now, lastWrite, heartbeated>>

\* get_online_status and debug_get_users: now = utcnow(); one pass of the loop
\* over USER_HEARTBEATS.items() per step; then the return.  The iterator
\* raises RuntimeError when the dict has changed its size.
step_read(T) ==
    LET k == Len(T.out) + 1
    IN  /\ T.req.op \in ReadOps
        /\ CanRun(T)
        /\ \/ /\ T.pc = "start"
              /\ Advance(T, [T EXCEPT !.pc = "loop", !.t = now,
                                      !.n = Len(USER_HEARTBEATS)])
              /\ UNCHANGED response
           \/ /\ T.pc = "loop"
              /\ IF Len(USER_HEARTBEATS) # T.n THEN Return(T, InternalError)
                 ELSE IF k <= T.n
                 THEN /\ Advance(T, [T EXCEPT !.out =
                             Append(T.out,
                                    IF T.req.op = "get_online_status"
                                    THEN FriendEntry(USER_HEARTBEATS[k], T.t)
                                    ELSE DebugEntry(USER_HEARTBEATS[k], T.t))])
                      /\ UNCHANGED response
                 ELSE Return(T,
                        [status |-> 200,
                         body |-> IF T.req.op = "get_online_status"
                                  THEN [friends |-> SortByName(T.out)]
                                  ELSE [total_users |-> Len(T.out),
                                        online_timeout_seconds |-> ONLINE_TIMEOUT_SECONDS,
                                        use_mock_data |-> USE_MOCK_DATA,
                                        users |-> T.out]])
        /\ UNCHANGED <<USER_HEARTBEATS, now, lastWrite, heartbeated, committed>>

StepHeartbeat == \E T \in tasks : step_post_heartbeat(T)

StepClear == \E T \in tasks : step_debug_clear_users(T)

StepSimulate == \E T \in tasks : step_debug_simulate(T)

StepRead == \E T \in tasks : step_read(T)

NextSteps ==
    \/ Tick
    \/ Receive
    \/ StepHeartbeat
    \/ StepClear
    \/ StepSimulate
    \/ StepRead

SpecSteps == Init /\ [][NextSteps]_vars

-----------------------------------------------------------------------------
(* Properties *)

\* The positions of identity u in a friends list, and its classification.
EntriesOf(friends, u) == {i \in 1..Len(friends) : friends[i].uuid = u}

StateOf(friends, u) == friends[CHOOSE i \in EntriesOf(friends, u) : TRUE].state

\* The last response is a friends list.
IsFriendsList(r) == r.status = 200 /\ "friends" \in DOMAIN r.body

\* C1: staleness always wins.  In the list get_status returns, an identity
\* whose last write was a heartbeat at time T is listed, and is classified
\* offline if and only if now - T >= the timeout, whatever activity_state it
\* reported; with the timeout of 300 an "online" (active) heartbeat at T = 0
\* is online at 0 and at 299 and offline at 300.
C1_StalenessWins ==
    IsFriendsList(response) =>
        \A u \in AllUuids :
            lastWrite[u].op = "heartbeat" =>
                LET friends == response.body.friends
                    T == lastWrite[u].at
                IN  /\ EntriesOf(friends, u) # {}
                    /\ \A i \in EntriesOf(friends, u) :
                           /\ friends[i].state = "offline" <=> now - T >= 300
                           /\ T = 0 /\ now \in {0, 299}
                                    /\ lastWrite[u].activity_state = "online"
                                  => friends[i].state = "online"
                           /\ T = 0 /\ now = 300 => friends[i].state = "offline"

\* C1 witness: a list read at 300 shows u1, heartbeated "online" at 0, offline.
C1_Witness ==
    /\ IsFriendsList(response)
    /\ now = 300
    /\ lastWrite["u1"].op = "heartbeat"
    /\ lastWrite["u1"].at = 0
    /\ lastWrite["u1"].activity_state = "online"
    /\ EntriesOf(response.body.friends, "u1") # {}
    /\ StateOf(response.body.friends, "u1") = "offline"


\* C2: within the freshness window (elapsed < timeout) get_status classifies
\* a record as idle if and only if the activity_state last written to it is
\* idle, and as online for every other activity_state; every record of the
\* response is classified against the one time the request was handled at.
C2_FreshClassification ==
    IsFriendsList(response) =>
        LET friends == response.body.friends
        IN  \A k \in 1..Len(USER_HEARTBEATS) :
                LET u == USER_HEARTBEATS[k][1]
                    elapsed == now - USER_HEARTBEATS[k][2].last_seen
                IN  /\ EntriesOf(friends, u) # {}
                    /\ \A i \in EntriesOf(friends, u) :
                           /\ friends[i].state = "offline" <=> elapsed >= 300
                           /\ elapsed < 300 =>
                                 /\ friends[i].state = "idle" <=>
                                        lastWrite[u].activity_state = "idle"
                                 /\ lastWrite[u].activity_state \in {"online", "unknown"}
                                        => friends[i].state = "online"

\* C2 witness: one response read at 299 lists a fresh idle record as idle, a
\* fresh "unknown" record as online.
C2_Witness ==
    /\ IsFriendsList(response)
    /\ now = 299
    /\ lastWrite["u1"] = [op |-> "heartbeat", at |-> 0, activity_state |-> "idle"]
    /\ lastWrite["u2"] = [op |-> "heartbeat", at |-> 299, activity_state |-> "unknown"]
    /\ EntriesOf(response.body.friends, "u1") # {}
    /\ EntriesOf(response.body.friends, "u2") # {}
    /\ StateOf(response.body.friends, "u1") = "idle"
    /\ StateOf(response.body.friends, "u2") = "online"

\* The last response acknowledges a heartbeat; it acknowledges body b.  (Every
\* step post_heartbeat(API_TOKEN, b) accepts b with ends in AckOf(response', b):
\* stating it first spares evaluating the handler for the other bodies.)
IsHeartbeatAck(r) == r.status = 200 /\ "timestamp" \in DOMAIN r.body

AckOf(r, b) ==
    r.body.message = <<"Heartbeat received for", b.name, ActivityOf(b)>>

\* No two items of the dict share a key.
NoDuplicates == Cardinality(Keys(USER_HEARTBEATS)) = Len(USER_HEARTBEATS)

\* C3: insert-or-update.  Each identity has at most one record; get_status
\* has exactly one entry per stored identity and no other; an accepted
\* heartbeat for an identity with a record replaces its name and last_seen and
\* leaves the number of records unchanged, one for an unseen identity adds
\* exactly one record.
C3_InsertOrUpdate ==
    /\ [](/\ NoDuplicates
          /\ IsFriendsList(response) =>
                /\ Len(response.body.friends) = Len(USER_HEARTBEATS)
                /\ \A u \in Keys(USER_HEARTBEATS) :
                       Cardinality(EntriesOf(response.body.friends, u)) = 1)
    /\ [][IsHeartbeatAck(response') =>
            \A b \in FullBodies(Uuids) \cup BodiesNoActivity(Uuids) :
               AckOf(response', b) /\ post_heartbeat(API_TOKEN, b) =>
                   /\ Contains(USER_HEARTBEATS', b.uuid)
                   /\ GetItem(USER_HEARTBEATS', b.uuid).name = b.name
                   /\ GetItem(USER_HEARTBEATS', b.uuid).last_seen = now
                   /\ Len(USER_HEARTBEATS') =
                          IF Contains(USER_HEARTBEATS, b.uuid)
                          THEN Len(USER_HEARTBEATS)
                          ELSE Len(USER_HEARTBEATS) + 1
       ]_vars

\* C3 witness: u1, created at 0 as the first of two records, has been
\* heartbeated again at 300 under the other name, and there are two records.
C3_Witness ==
    /\ Len(USER_HEARTBEATS) = 2
    /\ USER_HEARTBEATS[1][1] = "u1"
    /\ USER_HEARTBEATS[2][2].last_seen = 0
    /\ USER_HEARTBEATS[1][2].last_seen = 300
    /\ response.status = 200
    /\ "timestamp" \in DOMAIN response.body
    /\ response.body.timestamp = IsoZ(300)

\* The statuses of an authentication failure.
AuthFailure == {401, 403}

\* A request of a protected operation made with credentials c.
Protected(c) ==
    \/ HeartbeatWith(c, Uuids)
    \/ get_online_status(c)
    \/ debug_get_users(c)
    \/ debug_clear_users(c)
    \/ \E u \in PathUuids :
           \/ debug_simulate_offline(c, u)
           \/ debug_simulate_idle(c, u)
           \/ debug_simulate_active(c, u)

HeartbeatAnswer(r, b) == r.status = 422 \/ (IsHeartbeatAck(r) /\ AckOf(r, b))

\* The acknowledgement of the simulate handler `what` for uuid u.
SimulateAck(r, u, what) ==
    /\ r.status = 200
    /\ "message" \in DOMAIN r.body
    /\ r.body.message = <<"User", u, what>>

\* What a heartbeat step does when exactly the activity states of Accepted
\* are accepted: such a state is recorded verbatim, any other is rejected
\* with a validation failure that leaves the store unchanged.
AcceptsExactly(Accepted) ==
    response'.status = 422 \/ IsHeartbeatAck(response') =>
        \A b \in FullBodies(Uuids) :
            HeartbeatAnswer(response', b) /\ post_heartbeat(API_TOKEN, b) =>
                IF b.activity_state \in Accepted
                THEN /\ IsHeartbeatAck(response')
                     /\ Contains(USER_HEARTBEATS', b.uuid)
                     /\ GetItem(USER_HEARTBEATS', b.uuid).activity_state =
                            b.activity_state
                ELSE /\ response'.status = 422
                     /\ USER_HEARTBEATS' = USER_HEARTBEATS

C6_NoEmptyIdentity ==
    /\ ~Contains(USER_HEARTBEATS, "")
    /\ IsFriendsList(response) => EntriesOf(response.body.friends, "") = {}

\* C7: debug_force_offline, debug_force_idle and debug_force_active for an
\* identity without a record end in a not-found failure and leave the store
\* unchanged.
C7_ForceUnknownIsNotFound ==
    [][\A u \in PathUuids :
           /\ ~Contains(USER_HEARTBEATS, u)
           /\ \/ debug_simulate_offline(API_TOKEN, u)
              \/ debug_simulate_idle(API_TOKEN, u)
              \/ debug_simulate_active(API_TOKEN, u)
           => /\ response'.status = 404
              /\ USER_HEARTBEATS' = USER_HEARTBEATS
    ]_vars

\* C7 witness: a force operation on u2 was answered not found while the store
\* held the record of u1 and none of u2.
C7_Witness ==
    /\ response.status = 404
    /\ response.body.error = <<"User", "u2", "not found">>
    /\ Keys(USER_HEARTBEATS) = {"u1"}

\* C8: after debug_force_offline(id) on an existing identity get_status
\* classifies id as offline, also when id had just heartbeated and when a
\* fresh heartbeat of another identity has arrived since; the operation leaves
\* the classification of every other identity as it was.
C8_ForceOffline ==
    /\ [](IsFriendsList(response) =>
             \A u \in AllUuids :
                 lastWrite[u].op = "simulated as offline" =>
                     /\ EntriesOf(response.body.friends, u) # {}
                     /\ \A i \in EntriesOf(response.body.friends, u) :
                            response.body.friends[i].state = "offline")
    /\ [][\A u \in PathUuids :
              SimulateAck(response', u, "simulated as offline")
                 /\ debug_simulate_offline(API_TOKEN, u) =>
                  \A v \in AllUuids \ {u} :
                      StateAt(USER_HEARTBEATS', v, now') =
                          StateAt(USER_HEARTBEATS, v, now)
       ]_vars

\* C8 witness: u1 was forced offline at 0, u2 heartbeated at 299, and the list
\* read at 299 shows u1 offline and u2 online.
C8_Witness ==
    /\ IsFriendsList(response)
    /\ now = 299
    /\ lastWrite["u1"].op = "simulated as offline"
    /\ lastWrite["u1"].at = 0
    /\ lastWrite["u2"] = [op |-> "heartbeat", at |-> 299, activity_state |-> "online"]
    /\ EntriesOf(response.body.friends, "u1") # {}
    /\ EntriesOf(response.body.friends, "u2") # {}
    /\ StateOf(response.body.friends, "u1") = "offline"
    /\ StateOf(response.body.friends, "u2") = "online"

\* C9: debug_force_idle(id) and debug_force_active(id) on an existing identity
\* select one classification whatever state the record was in: the step leaves
\* id classified idle (online), and a get_status at the same time lists it so.
C9_ForceIdleActive ==
    /\ [](IsFriendsList(response) =>
             \A u \in AllUuids :
                 /\ lastWrite[u].op = "simulated as idle" /\ lastWrite[u].at = now
                    => /\ EntriesOf(response.body.friends, u) # {}
                       /\ \A i \in EntriesOf(response.body.friends, u) :
                              response.body.friends[i].state = "idle"
                 /\ lastWrite[u].op = "simulated as active" /\ lastWrite[u].at = now
                    => /\ EntriesOf(response.body.friends, u) # {}
                       /\ \A i \in EntriesOf(response.body.friends, u) :
                              response.body.friends[i].state = "online")
    /\ [][\A u \in PathUuids :
              Contains(USER_HEARTBEATS, u) =>
                  /\ SimulateAck(response', u, "simulated as idle")
                        /\ debug_simulate_idle(API_TOKEN, u)
                     => StateAt(USER_HEARTBEATS', u, now') = "idle"
                  /\ SimulateAck(response', u, "simulated as active")
                        /\ debug_simulate_active(API_TOKEN, u)
                     => StateAt(USER_HEARTBEATS', u, now') = "online"
       ]_vars

\* C9 witness: u1 was last written by debug_force_idle at 300 and u2 by
\* debug_force_active at 300, and the list read at 300 shows u1 idle and u2
\* online.
C9_Witness ==
    /\ IsFriendsList(response)
    /\ now = 300
    /\ lastWrite["u1"].op = "simulated as idle"
    /\ lastWrite["u1"].at = 300
    /\ lastWrite["u2"].op = "simulated as active"
    /\ lastWrite["u2"].at = 300
    /\ EntriesOf(response.body.friends, "u1") # {}
    /\ EntriesOf(response.body.friends, "u2") # {}
    /\ StateOf(response.body.friends, "u1") = "idle"
    /\ StateOf(response.body.friends, "u2") = "online"

\* C10: the stored identities, and the identities get_status lists, are among
\* those of the heartbeats accepted since the last debug_clear; no step but an
\* accepted heartbeat introduces a record.
C10_OnlyHeartbeatsCreate ==
    /\ [](/\ Keys(USER_HEARTBEATS) \subseteq heartbeated
          /\ IsFriendsList(response) =>
                \A i \in 1..Len(response.body.friends) :
                    response.body.friends[i].uuid \in heartbeated)
    /\ [][\/ Keys(USER_HEARTBEATS') \subseteq Keys(USER_HEARTBEATS)
          \/ IsHeartbeatAck(response')
       ]_vars

\* C10 witness: at 300 only u1 has heartbeated since the start or the last
\* clear, and the list read then has the one entry of u1.
C10_Witness ==
    /\ IsFriendsList(response)
    /\ heartbeated = {"u1"}
    /\ Len(response.body.friends) = 1
    /\ response.body.friends[1].uuid = "u1"
    /\ now = 300
    /\ lastWrite["u1"].at = 300

\* The acknowledgement of debug_clear_users.
IsClearAck(r) ==
    /\ r.status = 200
    /\ "message" \in DOMAIN r.body
    /\ r.body.message = <<"All user data cleared">>

\* C11: debug_clear removes every record, whatever the store held: the step
\* leaves the store empty, and a get_status with no heartbeat accepted since
\* the clear returns an empty list.
C11_ClearEmpties ==
    /\ [](/\ IsClearAck(response) => USER_HEARTBEATS = <<>>
          /\ IsFriendsList(response) /\ heartbeated = {} =>
                response.body.friends = <<>>)
    /\ [][IsClearAck(response') => USER_HEARTBEATS' = <<>>]_vars

\* C11 witness: a clear removed the records of u1 and u2, neither has
\* heartbeated since, and the list read then is empty.
C11_Witness ==
    /\ IsFriendsList(response)
    /\ response.body.friends = <<>>
    /\ lastWrite["u1"] = Cleared
    /\ lastWrite["u2"] = Cleared
    /\ heartbeated = {}

\* C12: records are never deleted automatically.  No step but a debug_clear
\* removes an identity from the store, however far the clock advances; an
\* identity written since the last clear is in every list get_status returns,
\* classified offline once its record is stale.
C12_OnlyClearDeletes ==
    /\ [](IsFriendsList(response) =>
             \A u \in AllUuids :
                 lastWrite[u] \notin {NoWrite, Cleared} =>
                     /\ Contains(USER_HEARTBEATS, u)
                     /\ EntriesOf(response.body.friends, u) # {}
                     /\ now - GetItem(USER_HEARTBEATS, u).last_seen >= 300
                            => StateOf(response.body.friends, u) = "offline")
    /\ [][\/ Keys(USER_HEARTBEATS) \subseteq Keys(USER_HEARTBEATS')
          \/ IsClearAck(response')
       ]_vars

\* C12 witness: u1 and u2 last heartbeated at 0; the list read at 300, a whole
\* timeout later, still has both, offline.
C12_Witness ==
    /\ IsFriendsList(response)
    /\ now = 300
    /\ lastWrite["u1"].op = "heartbeat" /\ lastWrite["u1"].at = 0
    /\ lastWrite["u2"].op = "heartbeat" /\ lastWrite["u2"].at = 0
    /\ Len(response.body.friends) = 2
    /\ \A i \in 1..2 : response.body.friends[i].state = "offline"

\* The order of the identities as strings.
UuidRank == [u \in AllUuids |-> IF u = "" THEN 0 ELSE IF u = "u1" THEN 1 ELSE 2]

\* The entries of a list are in ascending order of their lower-cased names.
OrderedByName(friends) ==
    \A i, j \in 1..Len(friends) :
        i < j => ~StrLess(Lower(friends[j].name), Lower(friends[i].name))

\* Entries whose names are equal ignoring case are in the order of their
\* identities.
TiesByIdentity(friends) ==
    \A i, j \in 1..Len(friends) :
        i < j /\ Lower(friends[i].name) = Lower(friends[j].name)
            => UuidRank[friends[i].uuid] < UuidRank[friends[j].uuid]

\* Entries whose names are equal ignoring case are in the order in which their
\* records were created.
TiesByInsertion(friends) ==
    \A i, j \in 1..Len(friends) :
        i < j /\ Lower(friends[i].name) = Lower(friends[j].name)
            => IndexOf(USER_HEARTBEATS, friends[i].uuid)
                   < IndexOf(USER_HEARTBEATS, friends[j].uuid)

\* C13 as claimed: the list get_status returns is in ascending order of the
\* display names compared case-insensitively, and entries with names equal
\* ignoring case are ordered by identity.
C13_OrderedByNameThenIdentity ==
    IsFriendsList(response) =>
        /\ OrderedByName(response.body.friends)
        /\ TiesByIdentity(response.body.friends)

\* No handler is between its first statement and its return.
Quiescent == \A T \in tasks : T.pc = "start"

\* Every record is, in all three fields, the record the last completed write
\* to its identity meant to leave, and there is no other record.
StoreIsCommitted ==
    \A u \in AllUuids :
        IF Contains(USER_HEARTBEATS, u)
        THEN GetItem(USER_HEARTBEATS, u) = committed[u]
        ELSE committed[u] = NoRecord

\* Task T of this state has returned in the step.
Returns(T) == \A other \in tasks' : other.req # T.req

\* The record a list entry was made from.
RecordOf(entry) ==
    [name |-> entry.name, last_seen |-> entry.last_seen[2],
     activity_state |-> entry.activity_state]

\* C14: concurrent requests never lose or tear a record.  Between handlers
\* every stored record equals in display_name, activity_state and last_seen
\* the record written by the write that completed last; a heartbeat that
\* returns leaves exactly its own record; and every entry a get_status or a
\* debug_list reads while writes are in flight is a record as a completed
\* write left it, never one with only some fields updated.
C14_NoLostOrTornRecord ==
    /\ [](Quiescent => StoreIsCommitted)
    /\ [][\A T \in tasks :
            /\ T.req.op = "post_heartbeat" /\ T.pc = "209" /\ Returns(T) =>
                  /\ Contains(USER_HEARTBEATS', T.req.uuid)
                  /\ GetItem(USER_HEARTBEATS', T.req.uuid) =
                         [name |-> T.req.name, last_seen |-> T.t,
                          activity_state |-> T.req.activity_state]
            /\ T.req.op \in ReadOps /\ T.pc = "loop" =>
                  \A T2 \in tasks' :
                      T2.req = T.req /\ Len(T2.out) = Len(T.out) + 1 =>
                          LET entry == T2.out[Len(T2.out)]
                          IN  RecordOf(entry) = committed[entry.uuid]
       ]_vars

\* C14 witness: debug_force_idle has written activity_state and not yet
\* last_seen, so the record of u1 is neither the one before nor the one after
\* the operation, while a get_status is in flight.
C14_Witness ==
    /\ \E T \in tasks : T.req.op = "debug_simulate_idle" /\ T.pc = "refresh"
    /\ \E T \in tasks : T.req.op = "get_online_status" /\ T.pc = "start"
    /\ Contains(USER_HEARTBEATS, "u1")
    /\ GetItem(USER_HEARTBEATS, "u1") # committed["u1"]
    /\ GetItem(USER_HEARTBEATS, "u1") # IdleData(committed["u1"], now)

\* C15: each request takes effect as one atomic store operation.  No request
\* ends in an internal failure and every stored record has its three fields;
\* a debug force operation in flight together with a debug_clear or a
\* heartbeat ends either as not-found without having written anything, or as
\* a success on an existing record that holds what the operation made of the
\* record it found.
C15_AtomicForce ==
    /\ [](/\ response.status # 500
          /\ \A i \in 1..Len(USER_HEARTBEATS) :
                 DOMAIN USER_HEARTBEATS[i][2] =
                     {"name", "activity_state", "last_seen"})
    /\ [][\A T \in tasks :
            T.req.op \in SimulateOps /\ Returns(T) =>
                \/ /\ response'.status = 404
                   /\ T.pc = "start"
                   /\ USER_HEARTBEATS' = USER_HEARTBEATS
                \/ /\ response' = SimulateDone(T)
                   /\ Contains(USER_HEARTBEATS', T.req.uuid)
                   /\ GetItem(USER_HEARTBEATS', T.req.uuid) =
                          CASE T.req.op = "debug_simulate_offline" ->
                                   OfflineData(T.seen, now)
                            [] T.req.op = "debug_simulate_idle" ->
                                   IdleData(T.seen, now)
                            [] OTHER -> ActiveData(T.seen, now)
       ]_vars

\* C15 witness: debug_force_offline has found the record of u1 and not yet
\* written to it, while a debug_clear is in flight.
C15_Witness ==
    /\ \E T \in tasks : T.req.op = "debug_simulate_offline" /\ T.pc = "write"
    /\ \E T \in tasks : T.req.op = "debug_clear_users"
    /\ Contains(USER_HEARTBEATS, "u1")

\* The record of u exists and was last refreshed at T or before.
NotRefreshedSince(u, T) ==
    /\ Contains(USER_HEARTBEATS, u)
    /\ GetItem(USER_HEARTBEATS, u).last_seen <= T

\* u is classified offline, in the store and in a list just returned.
ClassifiedOffline(u) ==
    /\ StateAt(USER_HEARTBEATS, u, now) = "offline"
    /\ IsFriendsList(response) =>
          \A i \in EntriesOf(response.body.friends, u) :
              response.body.friends[i].state = "offline"

ListedOffline(u) ==
    /\ IsFriendsList(response)
    /\ EntriesOf(response.body.friends, u) # {}
    /\ StateOf(response.body.friends, u) = "offline"

\* The instants a whole timeout before the last instant of the clock.
ExpiringInstants == {T \in Instants : T + ONLINE_TIMEOUT_SECONDS \in Instants}

\* C16: a client cannot stay online without heartbeating.  While time keeps
\* advancing: if from some point on the record of id exists and is not
\* refreshed after T (no heartbeat, debug_force_idle or debug_force_active
\* for id, and no debug_clear), then from some point on id is classified
\* offline for good, and get_status lists it offline again and again.  A
\* step that takes id out of the offline classification is a heartbeat, a
\* debug_force_idle, a debug_force_active or a debug_clear.
C16_OfflineWithoutHeartbeat ==
    /\ \A u \in Uuids, T \in ExpiringInstants :
           <>[]NotRefreshedSince(u, T) =>
               /\ <>[]ClassifiedOffline(u)
               /\ []<>ListedOffline(u)
    /\ [][\A u \in Uuids :
              /\ StateAt(USER_HEARTBEATS, u, now) = "offline"
              /\ StateAt(USER_HEARTBEATS', u, now') # "offline"
              => lastWrite'[u].op \in {"heartbeat", "simulated as idle",
                                        "simulated as active", "cleared"}
                 /\ lastWrite'[u] # lastWrite[u]
       ]_vars

\* C16 witness: u1, made idle by debug_force_idle at 0 and not refreshed
\* since, is listed offline at 300.
C16_Witness ==
    /\ now = 300
    /\ lastWrite["u1"].op = "simulated as idle"
    /\ lastWrite["u1"].at = 0
    /\ NotRefreshedSince("u1", 0)
    /\ ListedOffline("u1")

\* The record of identity u in the dict d; NoRecord when it has none.
RecordIn(d, u) == IF Contains(d, u) THEN GetItem(d, u) ELSE NoRecord

\* The identities whose record, or whose presence, the step changes.
Changed ==
    {u \in AllUuids :
        \/ Contains(USER_HEARTBEATS', u) # Contains(USER_HEARTBEATS, u)
        \/ RecordIn(USER_HEARTBEATS', u) # RecordIn(USER_HEARTBEATS, u)}

\* C17: submit_heartbeat and the debug force operations applied to identity X
\* change only the record of X: every other identity is present or absent as
\* before, with the same display_name, activity_state and last_seen.
C17_OnlyOwnRecord ==
    [][/\ IsHeartbeatAck(response') =>
             \A b \in FullBodies(Uuids) \cup BodiesNoActivity(Uuids) :
                 AckOf(response', b) /\ post_heartbeat(API_TOKEN, b) =>
                     Changed \subseteq {b.uuid}
       /\ \A u \in PathUuids :
             /\ \/ SimulateAck(response', u, "simulated as offline")
                      /\ debug_simulate_offline(API_TOKEN, u)
                \/ SimulateAck(response', u, "simulated as idle")
                      /\ debug_simulate_idle(API_TOKEN, u)
                \/ SimulateAck(response', u, "simulated as active")
                      /\ debug_simulate_active(API_TOKEN, u)
             => Changed \subseteq {u}
    ]_vars

\* C17 witness: u1 has just been forced offline at 300 while the record of
\* u2, an idle heartbeat of time 0, is as that heartbeat left it.
C17_Witness ==
    /\ SimulateAck(response, "u1", "simulated as offline")
    /\ now = 300
    /\ lastWrite["u1"].at = 300
    /\ lastWrite["u2"] = [op |-> "heartbeat", at |-> 0, activity_state |-> "idle"]
    /\ RecordIn(USER_HEARTBEATS, "u1").last_seen = 300 - SimulateOfflineAge
    /\ RecordIn(USER_HEARTBEATS, "u2").last_seen = 0
    /\ RecordIn(USER_HEARTBEATS, "u2").activity_state = "idle"

\* The last response is the debug listing; it is the liveness probe's.
IsDebugList(r) == r.status = 200 /\ "users" \in DOMAIN r.body

IsHealthz(r) == r.status = 200 /\ "ok" \in DOMAIN r.body

\* C18: read operations do not mutate the store.  get_status, debug_list and
\* the liveness probe leave the dict as it is; the list get_status returns is
\* a function of the store and the time, so a second get_status at the same
\* time with no write in between returns the same list.
C18_ReadsDoNotWrite ==
    /\ [](IsFriendsList(response) =>
             response.body.friends = get_real_friends_list(USER_HEARTBEATS, now))
    /\ [][/\ IsFriendsList(response') \/ IsDebugList(response') \/ IsHealthz(response')
             => USER_HEARTBEATS' = USER_HEARTBEATS
          /\ IsFriendsList(response) /\ IsFriendsList(response')
             => response' = response
       ]_vars

\* C18 witness: debug_list has just answered at 299 for a store of two
\* records, one of time 0 and one of time 299, which are still there.
C18_Witness ==
    /\ IsDebugList(response)
    /\ response.body.total_users = 2
    /\ now = 299
    /\ Len(USER_HEARTBEATS) = 2
    /\ USER_HEARTBEATS[1][2].last_seen = 0
    /\ USER_HEARTBEATS[2][2].last_seen = 299

\* C19: with a clock that does not go backward, the last_seen of an identity
\* never decreases under heartbeats and reads.  No record is dated after the
\* current time; an accepted heartbeat sets last_seen to the current time,
\* which is at least the value it replaces; and a step that lowers the
\* last_seen of a record is a debug_force_offline of that identity.
C19_LastSeenMonotone ==
    /\ [](\A i \in 1..Len(USER_HEARTBEATS) : USER_HEARTBEATS[i][2].last_seen <= now)
    /\ [][/\ IsHeartbeatAck(response') =>
                \A b \in FullBodies(Uuids) \cup BodiesNoActivity(Uuids) :
                    AckOf(response', b) /\ post_heartbeat(API_TOKEN, b) =>
                        /\ RecordIn(USER_HEARTBEATS', b.uuid).last_seen = now
                        /\ RecordIn(USER_HEARTBEATS, b.uuid).last_seen <= now
          /\ \A u \in AllUuids :
                /\ Contains(USER_HEARTBEATS, u)
                /\ Contains(USER_HEARTBEATS', u)
                /\ RecordIn(USER_HEARTBEATS', u).last_seen
                       < RecordIn(USER_HEARTBEATS, u).last_seen
                => SimulateAck(response', u, "simulated as offline")
       ]_vars

\* C19 witness: a heartbeat of u1 has just been accepted at 300 and dated its
\* record 300, while u2, forced offline at 299, is dated ten minutes before
\* that.
C19_Witness ==
    /\ IsHeartbeatAck(response)
    /\ response.body.timestamp = IsoZ(300)
    /\ RecordIn(USER_HEARTBEATS, "u1").last_seen = 300
    /\ lastWrite["u2"].op = "simulated as offline"
    /\ lastWrite["u2"].at = 299
    /\ RecordIn(USER_HEARTBEATS, "u2").last_seen = 299 - SimulateOfflineAge

\* The identities that keep their record in the step and change its
\* activity_state.
ActivityChanged ==
    {u \in AllUuids :
        /\ Contains(USER_HEARTBEATS, u)
        /\ Contains(USER_HEARTBEATS', u)
        /\ RecordIn(USER_HEARTBEATS', u).activity_state
               # RecordIn(USER_HEARTBEATS, u).activity_state}

\* An accepted heartbeat records the activity_state it carries.
HeartbeatSetsActivity ==
    IsHeartbeatAck(response') =>
        \A b \in FullBodies(Uuids) \cup BodiesNoActivity(Uuids) :
            AckOf(response', b) /\ post_heartbeat(API_TOKEN, b) =>
                RecordIn(USER_HEARTBEATS', b.uuid).activity_state = ActivityOf(b)

\* get_status reports the stored activity_state of every record, whatever its
\* classification.
ReportsStoredActivity ==
    IsFriendsList(response) =>
        \A i \in 1..Len(response.body.friends) :
            response.body.friends[i].activity_state =
                RecordIn(USER_HEARTBEATS, response.body.friends[i].uuid).activity_state

\* C20 as claimed: in every reachable state the stored activity_state of an
\* identity is the one carried by the most recent accepted heartbeat for it:
\* an accepted heartbeat records what it carries, and no other step changes
\* the activity_state of a record.
C20_ActivityIsLastHeartbeat ==
    /\ []ReportsStoredActivity
    /\ [][/\ HeartbeatSetsActivity
          /\ ActivityChanged # {} => IsHeartbeatAck(response')
       ]_vars

\* C20 amended: the stored activity_state of an identity is the one of the
\* most recent write to its record, which is an accepted heartbeat (the value
\* it carries), a debug_force_idle ("idle") or a debug_force_active
\* ("online"); the passing of time and debug_force_offline never change it,
\* and get_status reports it as stored also for a record classified offline.
C20_ActivityIsLastWrite ==
    /\ [](/\ ReportsStoredActivity
          /\ \A u \in Keys(USER_HEARTBEATS) :
                 RecordIn(USER_HEARTBEATS, u).activity_state =
                     lastWrite[u].activity_state)
    /\ [][/\ HeartbeatSetsActivity
          /\ \A u \in ActivityChanged :
                \/ IsHeartbeatAck(response')
                \/ /\ SimulateAck(response', u, "simulated as idle")
                   /\ RecordIn(USER_HEARTBEATS', u).activity_state = "idle"
                \/ /\ SimulateAck(response', u, "simulated as active")
                   /\ RecordIn(USER_HEARTBEATS', u).activity_state = "online"
       ]_vars

\* C20 witness: the list read at 300 shows u1, whose last heartbeat reported
\* idle at 0, as offline with activity_state idle, and u2, forced offline at
\* 300 after an "unknown" heartbeat, as offline with activity_state unknown.
C20_Witness ==
    /\ IsFriendsList(response)
    /\ now = 300
    /\ lastWrite["u1"] = [op |-> "heartbeat", at |-> 0, activity_state |-> "idle"]
    /\ lastWrite["u2"] = [op |-> "simulated as offline", at |-> 300,
                          activity_state |-> "unknown"]
    /\ \A i \in 1..Len(response.body.friends) :
           /\ response.body.friends[i].state = "offline"
           /\ response.body.friends[i].activity_state =
                  IF response.body.friends[i].uuid = "u1" THEN "idle" ELSE "unknown"
    /\ Len(response.body.friends) = 2

\* A record dated after the current time is not expired: the list classifies
\* it idle or online by its activity_state, and so does the debug listing.
FutureRecordsNotExpired ==
    /\ IsFriendsList(response) =>
          \A i \in 1..Len(response.body.friends) :
              LET data == RecordIn(USER_HEARTBEATS, response.body.friends[i].uuid)
              IN  now < data.last_seen =>
                      response.body.friends[i].state =
                          IF data.activity_state = "idle" THEN "idle" ELSE "online"
    /\ IsDebugList(response) =>
          \A i \in 1..Len(response.body.users) :
              LET data == RecordIn(USER_HEARTBEATS, response.body.users[i].uuid)
              IN  now < data.last_seen =>
                      response.body.users[i].effective_state =
                          IF data.activity_state = "idle" THEN "idle" ELSE "online"

\* The elapsed time debug_list reports is never negative.
ElapsedNeverNegative ==
    IsDebugList(response) =>
        \A i \in 1..Len(response.body.users) :
            response.body.users[i].elapsed_seconds >= 0

\* C21 as claimed: when the current time is earlier than a record's last_seen
\* the elapsed time used and reported for it (elapsed_seconds in debug_list)
\* is clamped to zero, never negative, and the record is classified idle or
\* online by its activity_state, never offline.
C21_ElapsedClamped ==
    /\ FutureRecordsNotExpired
    /\ ElapsedNeverNegative

\* C22: debug_list and get_status agree.  On the store and at the time
\* debug_list answered, the list get_status computes has the same identities,
\* one entry each; the effective_state of every identity in debug_list is the
\* state get_status gives it; total_users is the number of stored records and
\* the reported timeout is the one used for classification.
C22_DebugListAgrees ==
    IsDebugList(response) =>
        LET users == response.body.users
            friends == get_real_friends_list(USER_HEARTBEATS, now)
        IN  /\ {users[i].uuid : i \in 1..Len(users)} =
                   {friends[j].uuid : j \in 1..Len(friends)}
            /\ Len(users) = Len(friends)
            /\ \A i \in 1..Len(users) :
                   /\ EntriesOf(friends, users[i].uuid) # {}
                   /\ users[i].effective_state = StateOf(friends, users[i].uuid)
                   /\ users[i].activity_state =
                          friends[CHOOSE j \in EntriesOf(friends, users[i].uuid) :
                                      TRUE].activity_state
            /\ response.body.total_users = Len(USER_HEARTBEATS)
            /\ response.body.online_timeout_seconds = ONLINE_TIMEOUT_SECONDS
            /\ \A i \in 1..Len(users) :
                   users[i].effective_state = "offline" <=>
                       users[i].elapsed_seconds >=
                           response.body.online_timeout_seconds

\* C22 witness: debug_list at 300 shows u1, heartbeated at 0, now exactly one
\* timeout old, as offline, and u2, made idle at 299, as idle.
C22_Witness ==
    /\ IsDebugList(response)
    /\ now = 300
    /\ response.body.total_users = 2
    /\ lastWrite["u1"].op = "heartbeat" /\ lastWrite["u1"].at = 0
    /\ lastWrite["u2"].op = "simulated as idle" /\ lastWrite["u2"].at = 299
    /\ \A i \in 1..2 :
           response.body.users[i].effective_state =
               IF response.body.users[i].uuid = "u1" THEN "offline" ELSE "idle"

\* C23: offline is not absorbing.  An accepted heartbeat for an identity that
\* is classified offline (aged past the timeout or forced offline), or that
\* has lost its record to a debug_clear, leaves the record with the
\* heartbeat's name and activity_state and the current time, classified idle
\* when the heartbeat reports idle and online otherwise; a get_status at the
\* time of an identity's last heartbeat lists it so.
C23_OfflineNotAbsorbing ==
    /\ [](IsFriendsList(response) =>
             \A u \in AllUuids :
                 lastWrite[u].op = "heartbeat" /\ lastWrite[u].at = now =>
                     /\ EntriesOf(response.body.friends, u) # {}
                     /\ StateOf(response.body.friends, u) =
                            IF lastWrite[u].activity_state = "idle"
                            THEN "idle" ELSE "online")
    /\ [][IsHeartbeatAck(response') =>
            \A b \in FullBodies(Uuids) \cup BodiesNoActivity(Uuids) :
               /\ AckOf(response', b)
               /\ \/ StateAt(USER_HEARTBEATS, b.uuid, now) = "offline"
                  \/ lastWrite[b.uuid] = Cleared
               /\ post_heartbeat(API_TOKEN, b)
               => /\ RecordIn(USER_HEARTBEATS', b.uuid) =
                         [name |-> b.name, last_seen |-> now,
                          activity_state |-> ActivityOf(b)]
                  /\ StateAt(USER_HEARTBEATS', b.uuid, now') =
                         IF ActivityOf(b) = "idle" THEN "idle" ELSE "online"
       ]_vars

\* C23 witness: the record of u1 was created at 0 (it precedes that of u2,
\* which was forced offline at 0); at 300 u1 has heartbeated idle and the list
\* read then shows it idle and u2 offline.
C23_Witness ==
    /\ IsFriendsList(response)
    /\ now = 300
    /\ Len(USER_HEARTBEATS) = 2
    /\ USER_HEARTBEATS[1][1] = "u1"
    /\ lastWrite["u2"].op = "simulated as offline" /\ lastWrite["u2"].at = 0
    /\ lastWrite["u1"] = [op |-> "heartbeat", at |-> 300, activity_state |-> "idle"]
    /\ StateOf(response.body.friends, "u1") = "idle"
    /\ StateOf(response.body.friends, "u2") = "offline"

====
